---------------------------- MODULE Spec2Model ----------------------------
(***************************************************************************)
(* Model of the lumenu Key Light client (packages/keylight/src/keylight.ts *)
(* with errors.ts, http-client.ts and types.ts).                            *)
(*                                                                         *)
(*  - Temperature.kelvinToApi / Temperature.apiToKelvin are operators,     *)
(*    exercised by the specification SpecTemp.                             *)
(*  - The Keylight client is a state machine (specification Spec): a test  *)
(*    harness constructs a client over a recording transport, invokes one  *)
(*    operation, and the transport answers (ok, not ok, or a thrown fault). *)
(*  - Mdns.discover (packages/mdns) is a state machine (specification      *)
(*    SpecMdns, and SpecMdnsFair with the fairness of the timer): the       *)
(*    browser delivers advertisements until the timeout handler stops it.  *)
(*  - SpecFetch is the client over the default transport, FetchHttpClient, *)
(*    and that transport called directly; SpecShared is one client used by *)
(*    several call sites at once; SpecMdnsPair is discover invoked by two   *)
(*    call sites concurrently.                                             *)
(***************************************************************************)
EXTENDS Integers, Sequences, FiniteSets, TLC

VARIABLES
    ip,         \* address the client was constructed with
    baseUrl,    \* Keylight.baseUrl
    pc,         \* "idle" | "awaiting" | "resolved" | "rejected"
    op,         \* operation invoked on the client
    arg,        \* its argument
    pending,    \* the suspended operation: endpoint and the kinds its catch re-throws
    calls,      \* invocations recorded by the transport, in order
    answer,     \* what the transport answered to the awaited call
    outcome,    \* value the promise resolved with, or error it rejected with
    transport,  \* the HttpClient of the client: "mock" (recording) | "fetch" (FetchHttpClient)
    fetched,    \* arguments of the calls of fetch, in order
    response,   \* what fetch settled with: the server's response or a network fault
    inflight,   \* invocations made on one shared client, in the order they were made
    tfn,        \* Temperature function applied ("none" before the first)
    tin,        \* its input
    tmid,       \* in a round trip, the result of the first function
    tout,       \* its result (value or thrown error)
    dpc,            \* discover: "none" | "browsing" | "resolved"
    timeout,        \* its timeout
    elapsed,        \* time passed since the timer was set
    timerArmed,     \* the setTimeout callback has not run yet
    discoveredIPs,  \* the Set of addresses, in insertion order
    browserStopped, \* browser.stop() was called
    destroyed,      \* bonjourInstance.destroy() was called
    effects,        \* what the timeout handler did, in order
    resolveCount,   \* times the promise was resolved
    resolvedIPs,    \* the array the promise resolved with
    delivered,      \* services the browser delivered to the 'up' handler
    live,           \* delivered services still advertised on the network
    late,           \* services advertised after the browser was stopped
    discoveries,    \* concurrent invocations of discover: the locals of each, by call site
    clock           \* the time, for the timers of the concurrent invocations

mdnsVars == <<dpc, timeout, elapsed, timerArmed, discoveredIPs, browserStopped,
              destroyed, effects, resolveCount, resolvedIPs, delivered, live, late,
              discoveries, clock>>
vars == <<ip, baseUrl, pc, op, arg, pending, calls, answer, outcome,
          transport, fetched, response, inflight, tfn, tin, tmid, tout,
          dpc, timeout, elapsed, timerArmed, discoveredIPs, browserStopped,
          destroyed, effects, resolveCount, resolvedIPs, delivered, live, late,
          discoveries, clock>>
clientVars == <<ip, baseUrl, pc, op, arg, pending, calls, answer, outcome,
                transport, fetched, response, inflight>>
tempVars == <<tfn, tin, tmid, tout>>

-----------------------------------------------------------------------------
(* Program constants *)

KelvinMin == 2900
KelvinMax == 7000
TemperatureMin == 143
TemperatureMax == 344
BrightnessMin == 0
BrightnessMax == 100
Million == 1000000
Offset == 10

(* Bounds of the model *)

MaxTimeout == 2     \* longest timeout a caller passes to discover
MaxLights == 2      \* longest lights array a caller passes to updateLights
MaxCalls == 2       \* invocations made on one shared client
KelvinMargin == 3   \* Kelvin inputs range over [KelvinMin - margin, KelvinMax + margin]
UnitMargin == 3     \* device-unit inputs range over [TemperatureMin - margin, TemperatureMax + margin]

-----------------------------------------------------------------------------
(* Values *)

Undefined == [undefined |-> TRUE]
Null == [null |-> TRUE]
None == [none |-> TRUE]

Returned(v) == [kind |-> "return", value |-> v]
Thrown(e) == [kind |-> "throw", error |-> e]

(* errors.ts *)

KeylightConnectionError(address, cause) ==
    [name |-> "KeylightConnectionError", ip |-> address, cause |-> cause]

KeylightBadRequestError(endpoint) ==
    [name |-> "KeylightBadRequestError", endpoint |-> endpoint]

KeylightValidationError(field, value, min, max) ==
    [name |-> "KeylightValidationError", field |-> field, value |-> value,
     min |-> min, max |-> max]

\* an error that is none of the Keylight errors (a fault of the transport)
PlainError(message) == [name |-> "Error", message |-> message]

-----------------------------------------------------------------------------
(* Temperature *)

\* Math.round of the rational num / den (den > 0): the nearest integer, a tie
\* going to the larger one.  The quotients the program rounds are either an
\* exact tie (representable in binary floating point) or at least 1/(2*den)
\* away from one, far more than the error of the double division.
MathRound(num, den) == (2 * num + den) \div (2 * den)

\* kelvinToApi with the quotient truncated instead of rounded
kelvinToApiTruncated(kelvin) ==
    IF kelvin < KelvinMin \/ kelvin > KelvinMax
    THEN Thrown(KeylightValidationError("kelvin", kelvin, KelvinMin, KelvinMax))
    ELSE Returned((Million - Offset * kelvin) \div kelvin)

kelvinToApi(kelvin) ==
    IF kelvin < KelvinMin \/ kelvin > KelvinMax
    THEN Thrown(KeylightValidationError("kelvin", kelvin, KelvinMin, KelvinMax))
    ELSE Returned(MathRound(Million - Offset * kelvin, kelvin))

\* apiToKelvin dividing by the device value without the offset
apiToKelvinNoOffset(temperature) ==
    IF temperature < TemperatureMin \/ temperature > TemperatureMax
    THEN Thrown(KeylightValidationError("temperature", temperature,
                                        TemperatureMin, TemperatureMax))
    ELSE Returned(MathRound(Million, temperature))

\* apiToKelvin with the quotient truncated instead of rounded
apiToKelvinTruncated(temperature) ==
    IF temperature < TemperatureMin \/ temperature > TemperatureMax
    THEN Thrown(KeylightValidationError("temperature", temperature,
                                        TemperatureMin, TemperatureMax))
    ELSE Returned(Million \div (temperature + Offset))

apiToKelvin(temperature) ==
    IF temperature < TemperatureMin \/ temperature > TemperatureMax
    THEN Thrown(KeylightValidationError("temperature", temperature,
                                        TemperatureMin, TemperatureMax))
    ELSE Returned(MathRound(Million, temperature + Offset))

KelvinInputs == (KelvinMin - KelvinMargin) .. (KelvinMax + KelvinMargin)
UnitInputs == (TemperatureMin - UnitMargin) .. (TemperatureMax + UnitMargin)

-----------------------------------------------------------------------------
(* Inputs of the client operations *)

Addresses == {"192.168.1.61", "10.0.0.5"}

OnSamples == {0, 1}
BrightnessSamples ==
    {BrightnessMin - 1, BrightnessMin, BrightnessMax, BrightnessMax + 1}
TemperatureSamples ==
    {TemperatureMin - 1, TemperatureMin, TemperatureMax, TemperatureMax + 1}

\* LightUpdate (types.ts): every field optional; an absent field is absent
\* from the record's domain
LightUpdates ==
    {[on |-> o] : o \in OnSamples}
    \cup {[brightness |-> b] : b \in BrightnessSamples}
    \cup {[temperature |-> t] : t \in TemperatureSamples}
    \cup {[brightness |-> b, temperature |-> t] :
            b \in BrightnessSamples, t \in TemperatureSamples}
    \cup {[on |-> 1, brightness |-> 75, temperature |-> 250]}

LightArrays == UNION {[1 .. n -> LightUpdates] : n \in 0 .. MaxLights}

\* LightsUpdate (types.ts); numberOfLights is whatever the caller wrote
LightsUpdates ==
    {[numberOfLights |-> n, lights |-> ls] : n \in 1 .. MaxLights, ls \in LightArrays}

AccessoryInfoUpdates == {[displayName |-> "Desk"], [displayName |-> "Desk", productName |-> "Key Light"]}

\* LightSettingsUpdate (types.ts)
SettingsUpdates ==
    {[powerOnBehavior |-> 1]}
    \cup {[powerOnBrightness |-> b] : b \in BrightnessSamples}
    \cup {[powerOnTemperature |-> t] : t \in TemperatureSamples}
    \cup {[powerOnBrightness |-> b, powerOnTemperature |-> t] :
            b \in BrightnessSamples, t \in TemperatureSamples}
    \cup {[switchOnDurationMs |-> d, switchOffDurationMs |-> 300,
           colorChangeDurationMs |-> 100] : d \in {-1, 0, 100}}
    \cup {[powerOnBehavior |-> b, switchOnDurationMs |-> on,
           switchOffDurationMs |-> off, colorChangeDurationMs |-> change] :
            b \in {0, 1, 2}, on \in {-1, 100}, off \in {-1, 300}, change \in {-1, 100}}
    \cup {[powerOnBrightness |-> b, switchOnDurationMs |-> -1] : b \in BrightnessSamples}

\* what the transport can do with a call
Payloads == {[payload |-> "a"], [payload |-> "b"]}
Faults ==
    {PlainError("network"),
     PlainError("timeout"),
     KeylightConnectionError("http://10.9.9.9:9123/elgato", PlainError("inner")),
     KeylightBadRequestError("/elsewhere"),
     KeylightValidationError("brightness", 101, 0, 100)}
Answers ==
    {[kind |-> "response", ok |-> TRUE, status |-> 200, data |-> d] : d \in Payloads}
    \cup {[kind |-> "response", ok |-> FALSE, status |-> s, data |-> Null] : s \in {400, 500}}
    \cup {Thrown(f) : f \in Faults}

-----------------------------------------------------------------------------
(* Keylight *)

\* A method runs synchronously up to its first await.  There it has either
\* thrown (the promise is rejected) or called the transport and suspended.
\* path: what the method appends to baseUrl; endpoint: what it names in its
\* KeylightBadRequestError; rethrown: the errors its catch clause re-throws
Request(verb, path, body, endpoint, rethrown, returns) ==
    [kind |-> "request", verb |-> verb, path |-> path, body |-> body,
     endpoint |-> endpoint, rethrown |-> rethrown, returns |-> returns]

identify ==
    Request("POST", "/identify", Undefined, "/identify", {"KeylightBadRequestError"}, "void")

getAccessoryInfo ==
    Request("GET", "/accessory-info", Undefined, "/accessory-info", {"KeylightBadRequestError"}, "data")

\* updateAccessoryInfo sending its PUT to the lights path
updateAccessoryInfoLightsPath(info) ==
    Request("PUT", "/lights", info, "/accessory-info", {"KeylightBadRequestError"}, "data")

updateAccessoryInfo(info) ==
    Request("PUT", "/accessory-info", info, "/accessory-info", {"KeylightBadRequestError"}, "data")

getLights ==
    Request("GET", "/lights", Undefined, "/lights", {"KeylightBadRequestError"}, "data")

\* the validation loop checking every brightness before any temperature
RECURSIVE ValidateBrightnessThenTemperature(_, _)
ValidateBrightnessThenTemperature(lights, i) ==
    IF i > 2 * Len(lights) THEN None
    ELSE IF i <= Len(lights)
    THEN LET light == lights[i] IN
         IF /\ "brightness" \in DOMAIN light
            /\ (light.brightness < BrightnessMin \/ light.brightness > BrightnessMax)
         THEN KeylightValidationError("brightness", light.brightness,
                                      BrightnessMin, BrightnessMax)
         ELSE ValidateBrightnessThenTemperature(lights, i + 1)
    ELSE LET light == lights[i - Len(lights)] IN
         IF /\ "temperature" \in DOMAIN light
            /\ (light.temperature < TemperatureMin
                   \/ light.temperature > TemperatureMax)
         THEN KeylightValidationError("temperature", light.temperature,
                                      TemperatureMin, TemperatureMax)
         ELSE ValidateBrightnessThenTemperature(lights, i + 1)

\* the validation loop of updateLights: the first error thrown, scanning the
\* entries from index i on, or None
RECURSIVE ValidateLights(_, _)
ValidateLights(lights, i) ==
    IF i > Len(lights) THEN None
    ELSE LET light == lights[i] IN
         IF /\ "brightness" \in DOMAIN light
            /\ (light.brightness < BrightnessMin \/ light.brightness > BrightnessMax)
         THEN KeylightValidationError("brightness", light.brightness,
                                      BrightnessMin, BrightnessMax)
         ELSE IF /\ "temperature" \in DOMAIN light
                 /\ (light.temperature < TemperatureMin
                        \/ light.temperature > TemperatureMax)
         THEN KeylightValidationError("temperature", light.temperature,
                                      TemperatureMin, TemperatureMax)
         ELSE ValidateLights(lights, i + 1)

\* updateLights validating only the first entry of the array
updateLightsFirstEntryOnly(lights) ==
    LET first == IF Len(lights.lights) = 0 THEN <<>> ELSE <<lights.lights[1]>>
        error == ValidateLights(first, 1) IN
    IF error # None THEN Thrown(error)
    ELSE Request("PUT", "/lights", lights, "/lights",
                 {"KeylightBadRequestError", "KeylightValidationError"}, "data")

updateLights(lights) ==
    LET error == ValidateLights(lights.lights, 1) IN
    IF error # None THEN Thrown(error)
    ELSE Request("PUT", "/lights", lights, "/lights",
                 {"KeylightBadRequestError", "KeylightValidationError"}, "data")

\* getSettings reporting the lights path in its RejectedRequest
getSettingsLightsPath ==
    Request("GET", "/lights/settings", Undefined, "/lights",
            {"KeylightBadRequestError"}, "data")

getSettings ==
    Request("GET", "/lights/settings", Undefined, "/lights/settings", {"KeylightBadRequestError"}, "data")

\* updateSettings refusing a negative fade-in duration
updateSettingsChecksDuration(settings) ==
    IF /\ "powerOnBrightness" \in DOMAIN settings
       /\ (settings.powerOnBrightness < BrightnessMin
              \/ settings.powerOnBrightness > BrightnessMax)
    THEN Thrown(KeylightValidationError("powerOnBrightness", settings.powerOnBrightness,
                                        BrightnessMin, BrightnessMax))
    ELSE IF /\ "powerOnTemperature" \in DOMAIN settings
            /\ (settings.powerOnTemperature < TemperatureMin
                   \/ settings.powerOnTemperature > TemperatureMax)
    THEN Thrown(KeylightValidationError("powerOnTemperature", settings.powerOnTemperature,
                                        TemperatureMin, TemperatureMax))
    ELSE IF "switchOnDurationMs" \in DOMAIN settings /\ settings.switchOnDurationMs < 0
    THEN Thrown(KeylightValidationError("switchOnDurationMs", settings.switchOnDurationMs,
                                        0, 0))
    ELSE Request("PUT", "/lights/settings", settings, "/lights/settings",
                 {"KeylightBadRequestError", "KeylightValidationError"}, "data")

\* updateSettings checking powerOnTemperature before powerOnBrightness
updateSettingsTemperatureFirst(settings) ==
    IF /\ "powerOnTemperature" \in DOMAIN settings
       /\ (settings.powerOnTemperature < TemperatureMin
              \/ settings.powerOnTemperature > TemperatureMax)
    THEN Thrown(KeylightValidationError("powerOnTemperature", settings.powerOnTemperature,
                                        TemperatureMin, TemperatureMax))
    ELSE IF /\ "powerOnBrightness" \in DOMAIN settings
            /\ (settings.powerOnBrightness < BrightnessMin
                   \/ settings.powerOnBrightness > BrightnessMax)
    THEN Thrown(KeylightValidationError("powerOnBrightness", settings.powerOnBrightness,
                                        BrightnessMin, BrightnessMax))
    ELSE Request("PUT", "/lights/settings", settings, "/lights/settings",
                 {"KeylightBadRequestError", "KeylightValidationError"}, "data")

updateSettings(settings) ==
    IF /\ "powerOnBrightness" \in DOMAIN settings
       /\ (settings.powerOnBrightness < BrightnessMin
              \/ settings.powerOnBrightness > BrightnessMax)
    THEN Thrown(KeylightValidationError("powerOnBrightness", settings.powerOnBrightness,
                                        BrightnessMin, BrightnessMax))
    ELSE IF /\ "powerOnTemperature" \in DOMAIN settings
            /\ (settings.powerOnTemperature < TemperatureMin
                   \/ settings.powerOnTemperature > TemperatureMax)
    THEN Thrown(KeylightValidationError("powerOnTemperature", settings.powerOnTemperature,
                                        TemperatureMin, TemperatureMax))
    ELSE Request("PUT", "/lights/settings", settings, "/lights/settings",
                 {"KeylightBadRequestError", "KeylightValidationError"}, "data")

turnOn == updateLights([numberOfLights |-> 1, lights |-> <<[on |-> 1]>>])

\* turnOff sending the payload of turnOn
turnOffSendsOn == updateLights([numberOfLights |-> 1, lights |-> <<[on |-> 1]>>])

turnOff == updateLights([numberOfLights |-> 1, lights |-> <<[on |-> 0]>>])

setBrightness(brightness) ==
    IF brightness < BrightnessMin \/ brightness > BrightnessMax
    THEN Thrown(KeylightValidationError("brightness", brightness,
                                        BrightnessMin, BrightnessMax))
    ELSE updateLights([numberOfLights |-> 1, lights |-> <<[brightness |-> brightness]>>])

\* setTemperature naming the field of setBrightness in its error
setTemperatureBrightnessField(temperature) ==
    IF temperature < TemperatureMin \/ temperature > TemperatureMax
    THEN Thrown(KeylightValidationError("brightness", temperature,
                                        TemperatureMin, TemperatureMax))
    ELSE updateLights([numberOfLights |-> 1, lights |-> <<[temperature |-> temperature]>>])

setTemperature(temperature) ==
    IF temperature < TemperatureMin \/ temperature > TemperatureMax
    THEN Thrown(KeylightValidationError("temperature", temperature,
                                        TemperatureMin, TemperatureMax))
    ELSE updateLights([numberOfLights |-> 1, lights |-> <<[temperature |-> temperature]>>])

\* setTemperatureKelvin converting without the range check of kelvinToApi
setTemperatureKelvinUnchecked(kelvin) ==
    setTemperature(MathRound(Million - Offset * kelvin, kelvin))

setTemperatureKelvin(kelvin) ==
    LET temperature == kelvinToApi(kelvin) IN
    IF temperature.kind = "throw" THEN temperature
    ELSE setTemperature(temperature.value)

setLight(options) ==
    updateLights([numberOfLights |-> 1, lights |-> <<options>>])

\* the catch clause re-throwing the transport's fault instead of wrapping it
SettledUnwrapped(p, address, a) ==
    IF a.kind = "throw"
    THEN Thrown(a.error)
    ELSE IF ~a.ok
    THEN Thrown(KeylightBadRequestError(p.endpoint))
    ELSE IF p.returns = "void" THEN Returned(Undefined)
    ELSE Returned(a.data)

\* the rest of a method, once the awaited transport call has settled with
\* answer a: the ok test and the catch clause
Settled(p, address, a) ==
    IF a.kind = "throw"
    THEN IF a.error.name \in p.rethrown
         THEN Thrown(a.error)
         ELSE Thrown(KeylightConnectionError(address, a.error))
    ELSE IF ~a.ok
    THEN Thrown(KeylightBadRequestError(p.endpoint))
    ELSE IF p.returns = "void" THEN Returned(Undefined)
    ELSE Returned(a.data)

-----------------------------------------------------------------------------
(* FetchHttpClient *)

\* values JavaScript treats as false in `body ? ... : ...`
Zero == [number |-> 0]
EmptyString == [string |-> ""]
Falsy == {Undefined, Null, Zero, EmptyString}

\* JSON.stringify: the JSON text of a value; undefined has none
JSONStringify(value) == IF value = Undefined THEN Undefined ELSE [json |-> value]

AcceptOnly == "Accept" :> "application/json"
AcceptAndContentType ==
    ("Accept" :> "application/json") @@ ("Content-Type" :> "application/json")

\* the arguments FetchHttpClient.get passes to fetch
getRequest(url) == [url |-> url, method |-> "GET", headers |-> AcceptOnly]

\* the arguments FetchHttpClient.put passes to fetch
putRequest(url, body) ==
    [url |-> url, method |-> "PUT", headers |-> AcceptAndContentType,
     body |-> JSONStringify(body)]

\* the arguments FetchHttpClient.post passes to fetch
postRequest(url, body) ==
    IF body \notin Falsy
    THEN [url |-> url, method |-> "POST", headers |-> AcceptAndContentType,
          body |-> JSONStringify(body)]
    ELSE [url |-> url, method |-> "POST", headers |-> AcceptOnly]

\* what fetch settles with: a response of the server (a 204 has no body), or
\* a network fault
ResponseBodies == {[kind |-> "empty"], [kind |-> "text"]}
                    \cup {[kind |-> "json", value |-> d] : d \in Payloads}
ServerResponses ==
    {[kind |-> "server", status |-> s, body |-> b] :
        s \in {200, 400, 500}, b \in ResponseBodies}
    \cup {[kind |-> "server", status |-> 204, body |-> [kind |-> "empty"]]}
FetchOutcomes ==
    ServerResponses \cup {Thrown([name |-> "TypeError", message |-> "fetch failed"])}

\* Response.ok
Ok(r) == r.status >= 200 /\ r.status <= 299

\* Response.json(): the parsed body; a body that is empty or is not JSON
\* makes it reject with a SyntaxError
json(r) ==
    IF r.body.kind = "json"
    THEN Returned(r.body.value)
    ELSE Thrown([name |-> "SyntaxError", message |-> r.body.kind])

\* FetchHttpClient.get parsing the body of every response, ok or not
getResponseParsesEveryBody(r) ==
    IF r.kind = "throw" THEN r
    ELSE LET parsed == json(r) IN
         IF parsed.kind = "throw" THEN parsed
         ELSE [kind |-> "response", ok |-> Ok(r), status |-> r.status,
               data |-> parsed.value]

\* FetchHttpClient.get from the settling of fetch on: the HttpResponse it
\* resolves with, or the error it rejects with
getResponse(r) ==
    IF r.kind = "throw" THEN r
    ELSE IF Ok(r)
    THEN LET parsed == json(r) IN
         IF parsed.kind = "throw" THEN parsed
         ELSE [kind |-> "response", ok |-> TRUE, status |-> r.status,
               data |-> parsed.value]
    ELSE [kind |-> "response", ok |-> FALSE, status |-> r.status, data |-> Null]

\* FetchHttpClient.put from the settling of fetch on
putResponse(r) ==
    IF r.kind = "throw" THEN r
    ELSE IF Ok(r)
    THEN LET parsed == json(r) IN
         IF parsed.kind = "throw" THEN parsed
         ELSE [kind |-> "response", ok |-> TRUE, status |-> r.status,
               data |-> parsed.value]
    ELSE [kind |-> "response", ok |-> FALSE, status |-> r.status, data |-> Null]

\* FetchHttpClient.post from the settling of fetch on
postResponse(r) ==
    IF r.kind = "throw" THEN r
    ELSE IF Ok(r) /\ r.status # 204
    THEN LET parsed == json(r) IN
         IF parsed.kind = "throw" THEN parsed
         ELSE [kind |-> "response", ok |-> TRUE, status |-> r.status,
               data |-> parsed.value]
    ELSE [kind |-> "response", ok |-> Ok(r), status |-> r.status, data |-> Null]

\* the call of fetch a call on the transport makes
FetchRequest(call) ==
    CASE call.verb = "GET" -> getRequest(call.url)
      [] call.verb = "PUT" -> putRequest(call.url, call.body)
      [] call.verb = "POST" -> postRequest(call.url, call.body)

\* the method of the transport running on, once fetch has settled with r
FetchResponse(verb, r) ==
    CASE verb = "GET" -> getResponse(r)
      [] verb = "PUT" -> putResponse(r)
      [] verb = "POST" -> postResponse(r)

\* bodies a caller of the transport passes to put and post
TransportBodies == Falsy \cup Payloads

-----------------------------------------------------------------------------
(* The client under a recording transport *)

InitClient ==
    /\ inflight = <<>>
    /\ fetched = <<>>
    /\ response = None
    /\ ip = "192.168.1.61"
    /\ baseUrl = "http://" \o "192.168.1.61" \o ":9123/elgato"
    /\ pc = "idle"
    /\ op = "none"
    /\ arg = None
    /\ pending = None
    /\ calls = <<>>
    /\ answer = None
    /\ outcome = None

InitTemp ==
    /\ tfn = "none"
    /\ tin = 0
    /\ tmid = None
    /\ tout = None

\* the call sites that run discover concurrently
Callers == {"x", "y"}

\* a call site that has not called discover
NotStarted ==
    [dpc |-> "none", timeout |-> 0, due |-> 0, timerArmed |-> FALSE,
     discoveredIPs |-> <<>>, browserStopped |-> FALSE, destroyed |-> FALSE,
     resolvedIPs |-> <<>>, delivered |-> {}]

\* no discovery started
InitDiscover ==
    /\ discoveries = [c \in Callers |-> NotStarted]
    /\ clock = 0
    /\ dpc = "none"
    /\ timeout = 0
    /\ elapsed = 0
    /\ timerArmed = FALSE
    /\ discoveredIPs = <<>>
    /\ browserStopped = FALSE
    /\ destroyed = FALSE
    /\ effects = <<>>
    /\ resolveCount = 0
    /\ resolvedIPs = <<>>
    /\ delivered = {}
    /\ live = {}
    /\ late = {}

Init == InitClient /\ transport = "mock" /\ InitTemp /\ InitDiscover

\* setup() of the tests: a fresh recording transport and a client over it
Setup ==
    /\ pc \in {"resolved", "rejected"}
    /\ \E address \in Addresses :
        /\ ip' = address
        /\ baseUrl' = "http://" \o address \o ":9123/elgato"
        /\ pc' = "idle"
        /\ op' = "none"
        /\ arg' = None
        /\ pending' = None
        /\ calls' = <<>>
        /\ answer' = None
        /\ outcome' = None
        /\ fetched' = <<>>
        /\ response' = None
        /\ UNCHANGED <<transport, inflight, tempVars, mdnsVars>>

\* an invocation that issues its transport call twice
InvokeSendsTwice(name, argument, started) ==
    /\ op' = name
    /\ arg' = argument
    /\ IF started.kind = "throw"
       THEN /\ pc' = "rejected"
            /\ outcome' = started.error
            /\ UNCHANGED <<pending, calls>>
       ELSE /\ pc' = "awaiting"
            /\ pending' = started
            /\ calls' = calls \o << [verb |-> started.verb,
                                     url |-> baseUrl \o started.path,
                                     body |-> started.body],
                                    [verb |-> started.verb,
                                     url |-> baseUrl \o started.path,
                                     body |-> started.body] >>
            /\ UNCHANGED <<outcome, fetched>>
    /\ UNCHANGED <<ip, baseUrl, answer, transport, response, inflight, tempVars,
                   mdnsVars>>

\* the synchronous part of an invocation: started is what the method did up
\* to its first await; the call on the transport runs, in FetchHttpClient, up
\* to its call of fetch
Invoke(name, argument, started) ==
    /\ op' = name
    /\ arg' = argument
    /\ IF started.kind = "throw"
       THEN /\ pc' = "rejected"
            /\ outcome' = started.error
            /\ UNCHANGED <<pending, calls, fetched>>
       ELSE LET call == [verb |-> started.verb,
                         url |-> baseUrl \o started.path,
                         body |-> started.body] IN
            /\ pc' = "awaiting"
            /\ pending' = started
            /\ calls' = Append(calls, call)
            /\ fetched' = IF transport = "fetch"
                          THEN Append(fetched, FetchRequest(call))
                          ELSE fetched
            /\ UNCHANGED outcome
    /\ UNCHANGED <<ip, baseUrl, answer, transport, response, inflight, tempVars,
                   mdnsVars>>

Identify == pc = "idle" /\ Invoke("identify", None, identify)
GetAccessoryInfo == pc = "idle" /\ Invoke("getAccessoryInfo", None, getAccessoryInfo)
UpdateAccessoryInfo ==
    /\ pc = "idle"
    /\ \E info \in AccessoryInfoUpdates :
            Invoke("updateAccessoryInfo", info, updateAccessoryInfo(info))
GetLights == pc = "idle" /\ Invoke("getLights", None, getLights)
UpdateLights ==
    /\ pc = "idle"
    /\ \E lights \in LightsUpdates : Invoke("updateLights", lights, updateLights(lights))
GetSettings == pc = "idle" /\ Invoke("getSettings", None, getSettings)
UpdateSettings ==
    /\ pc = "idle"
    /\ \E settings \in SettingsUpdates :
            Invoke("updateSettings", settings, updateSettings(settings))
TurnOn == pc = "idle" /\ Invoke("turnOn", None, turnOn)
TurnOff == pc = "idle" /\ Invoke("turnOff", None, turnOff)
SetBrightness ==
    /\ pc = "idle"
    /\ \E brightness \in BrightnessSamples \cup {50} :
            Invoke("setBrightness", brightness, setBrightness(brightness))
SetTemperature ==
    /\ pc = "idle"
    /\ \E temperature \in TemperatureSamples \cup {200} :
            Invoke("setTemperature", temperature, setTemperature(temperature))
SetTemperatureKelvin ==
    /\ pc = "idle"
    /\ \E kelvin \in KelvinInputs :
            Invoke("setTemperatureKelvin", kelvin, setTemperatureKelvin(kelvin))
SetLight ==
    /\ pc = "idle"
    /\ \E options \in LightUpdates : Invoke("setLight", options, setLight(options))

\* the awaited transport call settles and the method runs to its end
TransportAnswers ==
    /\ pc = "awaiting"
    /\ transport = "mock"
    /\ \E a \in Answers :
        /\ answer' = a
        /\ LET result == Settled(pending, baseUrl, a) IN
            /\ pc' = IF result.kind = "throw" THEN "rejected" ELSE "resolved"
            /\ outcome' = IF result.kind = "throw" THEN result.error ELSE result.value
        /\ UNCHANGED <<ip, baseUrl, op, arg, pending, calls, transport, fetched,
                       response, inflight, tempVars, mdnsVars>>

Next ==
    \/ Setup
    \/ Identify
    \/ GetAccessoryInfo
    \/ UpdateAccessoryInfo
    \/ GetLights
    \/ UpdateLights
    \/ GetSettings
    \/ UpdateSettings
    \/ TurnOn
    \/ TurnOff
    \/ SetBrightness
    \/ SetTemperature
    \/ SetTemperatureKelvin
    \/ SetLight
    \/ TransportAnswers

Spec == Init /\ [][Next]_vars

-----------------------------------------------------------------------------
(* The client over FetchHttpClient, and FetchHttpClient called directly *)

InitFetch == InitClient /\ transport = "fetch" /\ InitTemp /\ InitDiscover

\* a call of a method of FetchHttpClient, up to its await of fetch
CallTransport(name, body, request) ==
    /\ op' = name
    /\ arg' = body
    /\ pc' = "awaiting"
    /\ pending' = [kind |-> "transport", verb |-> request.method]
    /\ fetched' = Append(fetched, request)
    /\ UNCHANGED <<ip, baseUrl, calls, answer, outcome, transport, response,
                   inflight, tempVars, mdnsVars>>

FetchGet ==
    /\ pc = "idle"
    /\ transport = "fetch"
    /\ CallTransport("FetchHttpClient.get", Undefined, getRequest(baseUrl \o "/lights"))

FetchPut ==
    /\ pc = "idle"
    /\ transport = "fetch"
    /\ \E body \in TransportBodies :
        CallTransport("FetchHttpClient.put", body, putRequest(baseUrl \o "/lights", body))

FetchPost ==
    /\ pc = "idle"
    /\ transport = "fetch"
    /\ \E body \in TransportBodies :
        CallTransport("FetchHttpClient.post", body,
                      postRequest(baseUrl \o "/identify", body))

\* fetch settles: the method of FetchHttpClient runs to its end and, when a
\* method of the client awaits it, so does that method
FetchSettles ==
    /\ pc = "awaiting"
    /\ transport = "fetch"
    /\ \E r \in FetchOutcomes :
        LET a == FetchResponse(pending.verb, r)
            result == IF pending.kind = "transport"
                      THEN IF a.kind = "throw" THEN a ELSE Returned(a)
                      ELSE Settled(pending, baseUrl, a) IN
        /\ response' = r
        /\ answer' = a
        /\ pc' = IF result.kind = "throw" THEN "rejected" ELSE "resolved"
        /\ outcome' = IF result.kind = "throw" THEN result.error ELSE result.value
        /\ UNCHANGED <<ip, baseUrl, op, arg, pending, calls, transport, fetched,
                       inflight, tempVars, mdnsVars>>

NextFetch ==
    \/ Setup
    \/ Identify
    \/ GetAccessoryInfo
    \/ UpdateAccessoryInfo
    \/ GetLights
    \/ UpdateLights
    \/ GetSettings
    \/ UpdateSettings
    \/ TurnOn
    \/ TurnOff
    \/ SetBrightness
    \/ SetTemperature
    \/ SetTemperatureKelvin
    \/ SetLight
    \/ FetchGet
    \/ FetchPut
    \/ FetchPost
    \/ FetchSettles

SpecFetch == InitFetch /\ [][NextFetch]_vars

-----------------------------------------------------------------------------
(* One client shared by several call sites *)

\* the invocations the call sites make
SharedInvocations ==
    {[name |-> "identify", argument |-> None, started |-> identify],
     [name |-> "getLights", argument |-> None, started |-> getLights],
     [name |-> "getSettings", argument |-> None, started |-> getSettings]}
    \cup {[name |-> "updateAccessoryInfo", argument |-> info,
            started |-> updateAccessoryInfo(info)] : info \in {[displayName |-> "Desk"]}}
    \cup {[name |-> "updateLights", argument |-> lights, started |-> updateLights(lights)] :
            lights \in {[numberOfLights |-> 1, lights |-> <<[brightness |-> b]>>] :
                            b \in {BrightnessMax, BrightnessMax + 1}}}
    \cup {[name |-> "updateSettings", argument |-> settings,
            started |-> updateSettings(settings)] :
            settings \in {[powerOnTemperature |-> TemperatureMax]}}
    \cup {[name |-> "setBrightness", argument |-> brightness,
            started |-> setBrightness(brightness)] : brightness \in {50}}

\* an invocation as the client holds it: the locals of the async method
\* (pending), the index of its call in the transport's record (0: none),
\* and its promise
Invocation(name, argument, started, index) ==
    IF started.kind = "throw"
    THEN [op |-> name, arg |-> argument, pending |-> None, request |-> 0,
          pc |-> "rejected", answer |-> None, outcome |-> started.error]
    ELSE [op |-> name, arg |-> argument, pending |-> started, request |-> index,
          pc |-> "awaiting", answer |-> None, outcome |-> None]

\* a call site invokes an operation on the shared client, while earlier
\* invocations are in flight or settled
Call ==
    /\ Len(inflight) < MaxCalls
    /\ \E i \in SharedInvocations :
        /\ inflight' = Append(inflight,
                Invocation(i.name, i.argument, i.started, Len(calls) + 1))
        /\ calls' = IF i.started.kind = "throw" THEN calls
                    ELSE Append(calls, [verb |-> i.started.verb,
                                        url |-> baseUrl \o i.started.path,
                                        body |-> i.started.body])
        /\ UNCHANGED <<ip, baseUrl, pc, op, arg, pending, answer, outcome, transport,
                       fetched, response, tempVars, mdnsVars>>

\* a method resuming with the locals of the invocation made last on the
\* client instead of its own
ResumedWithLatestLocals(k, a) ==
    LET result == Settled(inflight[Len(inflight)].pending, baseUrl, a) IN
    [inflight[k] EXCEPT
        !.answer = a,
        !.pc = IF result.kind = "throw" THEN "rejected" ELSE "resolved",
        !.outcome = IF result.kind = "throw" THEN result.error ELSE result.value]

\* the k-th invocation once its awaited transport call has settled with a
Resumed(k, a) ==
    LET result == Settled(inflight[k].pending, baseUrl, a) IN
    [inflight[k] EXCEPT
        !.answer = a,
        !.pc = IF result.kind = "throw" THEN "rejected" ELSE "resolved",
        !.outcome = IF result.kind = "throw" THEN result.error ELSE result.value]

\* the transport answers one of the awaited calls, in any order
CallSettles ==
    \E k \in DOMAIN inflight :
        /\ inflight[k].pc = "awaiting"
        /\ \E a \in Answers :
            /\ inflight' = [inflight EXCEPT ![k] = Resumed(k, a)]
            /\ UNCHANGED <<ip, baseUrl, pc, op, arg, pending, calls, answer, outcome,
                           transport, fetched, response, tempVars, mdnsVars>>

NextShared == Call \/ CallSettles

SpecShared == Init /\ [][NextShared]_vars

-----------------------------------------------------------------------------
(* The Temperature functions applied to every input of a bounded range *)

InitTemperature ==
    /\ InitClient
    /\ transport = "mock"
    /\ InitDiscover
    /\ tfn = "none"
    /\ tin \in KelvinInputs \cup UnitInputs
    /\ tmid = None
    /\ tout = None

CallKelvinToApi ==
    /\ tfn = "none"
    /\ tin \in KelvinInputs
    /\ tfn' = "kelvinToApi"
    /\ tout' = kelvinToApi(tin)
    /\ UNCHANGED <<tin, tmid, clientVars, mdnsVars>>

CallApiToKelvin ==
    /\ tfn = "none"
    /\ tin \in UnitInputs
    /\ tfn' = "apiToKelvin"
    /\ tout' = apiToKelvin(tin)
    /\ UNCHANGED <<tin, tmid, clientVars, mdnsVars>>

\* the value kelvinToApi returned is passed to apiToKelvin
ThenApiToKelvin ==
    /\ tfn = "kelvinToApi"
    /\ tout.kind = "return"
    /\ tfn' = "kelvinToApi,apiToKelvin"
    /\ tmid' = tout
    /\ tout' = apiToKelvin(tout.value)
    /\ UNCHANGED <<tin, clientVars, mdnsVars>>

\* the value apiToKelvin returned is passed to kelvinToApi
ThenKelvinToApi ==
    /\ tfn = "apiToKelvin"
    /\ tout.kind = "return"
    /\ tfn' = "apiToKelvin,kelvinToApi"
    /\ tmid' = tout
    /\ tout' = kelvinToApi(tout.value)
    /\ UNCHANGED <<tin, clientVars, mdnsVars>>

NextTemp == CallKelvinToApi \/ CallApiToKelvin \/ ThenApiToKelvin \/ ThenKelvinToApi

SpecTemp == InitTemperature /\ [][NextTemp]_vars

-----------------------------------------------------------------------------
(* Mdns *)

\* address strings, as sequences of characters
Ip5 == <<"1", "0", ".", "0", ".", "0", ".", "5">>
Ip6 == <<"1", "0", ".", "0", ".", "0", ".", "6">>
Ip7 == <<"1", "0", ".", "0", ".", "0", ".", "7">>
Loopback == <<"1", "2", "7", ".", "0", ".", "0", ".", "1">>
AnyAddress == <<"0", ".", "0", ".", "0", ".", "0">>
LoopbackV6 == <<":", ":", "1">>
LinkLocalV6 == <<"f", "e", "8", "0", ":", ":", "1">>

\* RemoteService: addresses and referer are optional
Services ==
    {[name |-> "a", addresses |-> <<Ip5>>],
     [name |-> "b", addresses |-> <<LinkLocalV6, Ip5, Ip6>>, referer |-> [address |-> Ip7]],
     [name |-> "c", addresses |-> <<Loopback, AnyAddress, LoopbackV6>>,
      referer |-> [address |-> Ip7]],
     [name |-> "d", addresses |-> <<>>, referer |-> [address |-> Ip7]],
     [name |-> "e", referer |-> [address |-> Loopback]],
     [name |-> "f", referer |-> [address |-> LinkLocalV6]],
     [name |-> "g"]}

\* isLocalhost without the any-address
isLocalhostLoopbackOnly(address) ==
    address = Loopback \/ address = LoopbackV6

isLocalhost(address) ==
    address = Loopback \/ address = AnyAddress \/ address = LoopbackV6

isIPv6(address) == \E i \in DOMAIN address : address[i] = ":"

\* Set.add that keeps a second copy of an address
SetAddKeepsDuplicates(set, address) == Append(set, address)

\* Set.add: a Set keeps its elements in insertion order, each once
SetAdd(set, address) ==
    IF \E i \in DOMAIN set : set[i] = address THEN set ELSE Append(set, address)

\* the loop over service.addresses, from index i on
RECURSIVE AddAddresses(_, _, _)
AddAddresses(set, addresses, i) ==
    IF i > Len(addresses) THEN set
    ELSE LET address == addresses[i] IN
         IF ~isIPv6(address) /\ ~isLocalhost(address)
         THEN AddAddresses(SetAdd(set, address), addresses, i + 1)
         ELSE AddAddresses(set, addresses, i + 1)

\* the 'up' handler falling back to the referer when the address list added
\* nothing
onUpFallsBackWhenNothingAdded(set, service) ==
    LET listed == IF "addresses" \in DOMAIN service /\ Len(service.addresses) > 0
                  THEN AddAddresses(set, service.addresses, 1)
                  ELSE set IN
    IF listed # set THEN listed
    ELSE IF "referer" \in DOMAIN service
    THEN LET address == service.referer.address IN
         IF ~isIPv6(address) /\ ~isLocalhost(address)
         THEN SetAdd(set, address)
         ELSE set
    ELSE set

\* the 'up' handler: the Set after the service was handled
onUp(set, service) ==
    IF "addresses" \in DOMAIN service /\ Len(service.addresses) > 0
    THEN AddAddresses(set, service.addresses, 1)
    ELSE IF "referer" \in DOMAIN service
    THEN LET address == service.referer.address IN
         IF ~isIPv6(address) /\ ~isLocalhost(address)
         THEN SetAdd(set, address)
         ELSE set
    ELSE set

\* discover({serviceType, timeout}): the browser is created, the handler
\* registered and the timer set
Discover ==
    /\ dpc = "none"
    /\ \E t \in 1 .. MaxTimeout :
        /\ timeout' = t
        /\ dpc' = "browsing"
        /\ elapsed' = 0
        /\ timerArmed' = TRUE
        /\ discoveredIPs' = <<>>
        /\ UNCHANGED <<browserStopped, destroyed, effects, resolveCount, resolvedIPs,
                       delivered, live, late, clientVars, tempVars, discoveries, clock>>

\* the browser emits 'up' for a service; a stopped browser emits nothing
Up ==
    /\ dpc = "browsing"
    /\ ~browserStopped
    /\ \E service \in Services :
        /\ discoveredIPs' = onUp(discoveredIPs, service)
        /\ delivered' = delivered \cup {service}
        /\ live' = live \cup {service}
        /\ UNCHANGED <<dpc, timeout, elapsed, timerArmed, browserStopped, destroyed,
                       effects, resolveCount, resolvedIPs, late, clientVars, tempVars, discoveries, clock>>

\* a delivered service disappears from the network; discover registers no
\* handler for it
Down ==
    /\ dpc = "browsing"
    /\ \E service \in live :
        /\ live' = live \ {service}
        /\ UNCHANGED <<dpc, timeout, elapsed, timerArmed, discoveredIPs,
                       browserStopped, destroyed, effects, resolveCount, resolvedIPs,
                       delivered, late, clientVars, tempVars, discoveries, clock>>

\* a service is advertised after browser.stop(): no 'up' is emitted (the
\* first such advertisement is recorded; later ones change nothing either)
LateUp ==
    /\ browserStopped
    /\ late = {}
    /\ \E service \in Services :
        /\ late' = late \cup {service}
        /\ UNCHANGED <<dpc, timeout, elapsed, timerArmed, discoveredIPs,
                       browserStopped, destroyed, effects, resolveCount, resolvedIPs,
                       delivered, live, clientVars, tempVars, discoveries, clock>>

\* time passes while the timer is pending
Tick ==
    /\ timerArmed
    /\ elapsed < timeout
    /\ elapsed' = elapsed + 1
    /\ UNCHANGED <<dpc, timeout, timerArmed, discoveredIPs, browserStopped,
                   destroyed, effects, resolveCount, resolvedIPs, delivered, live, late,
                   clientVars, tempVars, discoveries, clock>>

\* the timeout handler running before the timeout has elapsed
TimerFiresEarly ==
    /\ timerArmed
    /\ timerArmed' = FALSE
    /\ browserStopped' = TRUE
    /\ destroyed' = TRUE
    /\ resolvedIPs' = discoveredIPs
    /\ resolveCount' = resolveCount + 1
    /\ dpc' = "resolved"
    /\ effects' = effects \o <<"browser.stop", "bonjourInstance.destroy", "resolve">>
    /\ UNCHANGED <<timeout, elapsed, discoveredIPs, delivered, live, late,
                   clientVars, tempVars, discoveries, clock>>

\* the timeout handler resolving without stopping the browser
TimerFiresNoStop ==
    /\ timerArmed
    /\ elapsed >= timeout
    /\ timerArmed' = FALSE
    /\ destroyed' = TRUE
    /\ resolvedIPs' = discoveredIPs
    /\ resolveCount' = resolveCount + 1
    /\ dpc' = "resolved"
    /\ effects' = effects \o <<"bonjourInstance.destroy", "resolve">>
    /\ UNCHANGED <<timeout, elapsed, discoveredIPs, browserStopped, delivered, live,
                   late, clientVars, tempVars, discoveries, clock>>

\* the setTimeout callback: it runs once, when the timeout has elapsed
TimerFires ==
    /\ timerArmed
    /\ elapsed >= timeout
    /\ timerArmed' = FALSE
    /\ browserStopped' = TRUE
    /\ destroyed' = TRUE
    /\ resolvedIPs' = discoveredIPs
    /\ resolveCount' = resolveCount + 1
    /\ dpc' = "resolved"
    /\ effects' = effects \o <<"browser.stop", "bonjourInstance.destroy", "resolve">>
    /\ UNCHANGED <<timeout, elapsed, discoveredIPs, delivered, live, late,
                   clientVars, tempVars, discoveries, clock>>

NextMdns ==
    \/ Discover
    \/ Up
    \/ Down
    \/ LateUp
    \/ Tick
    \/ TimerFires

SpecMdns == Init /\ [][NextMdns]_vars

\* the event loop runs a timer callback that is due, and time passes
SpecMdnsFair == SpecMdns /\ WF_vars(Tick) /\ WF_vars(TimerFires)

-----------------------------------------------------------------------------
(* Mdns.discover invoked by two call sites concurrently *)

\* the services advertised to the concurrent invocations
PairServices == {service \in Services : service.name \in {"a", "c", "d"}}

\* the locals of discover once it has returned its promise: its own bonjour
\* instance, browser and Set, and its timer, set at time now
Started(t, now) ==
    [dpc |-> "browsing", timeout |-> t, due |-> now + t, timerArmed |-> TRUE,
     discoveredIPs |-> <<>>, browserStopped |-> FALSE, destroyed |-> FALSE,
     resolvedIPs |-> <<>>, delivered |-> {}]

\* the 'up' handler of an invocation, run for a service its browser emitted
Handled(d, service) ==
    [d EXCEPT !.discoveredIPs = onUp(d.discoveredIPs, service),
              !.delivered = d.delivered \cup {service}]

\* the setTimeout callback of an invocation
Expired(d) ==
    [d EXCEPT !.timerArmed = FALSE,
              !.browserStopped = TRUE,
              !.destroyed = TRUE,
              !.resolvedIPs = d.discoveredIPs,
              !.dpc = "resolved"]

\* the timeout of an invocation, were the bonjour instance and its browser
\* shared by all invocations: every browser still running is stopped
AfterTimeoutSharedInstance(ds, c) ==
    [k \in DOMAIN ds |->
        IF k = c THEN Expired(ds[k])
        ELSE IF ds[k].dpc = "browsing"
        THEN [ds[k] EXCEPT !.browserStopped = TRUE, !.destroyed = TRUE]
        ELSE ds[k]]

\* the invocations after the timer of invocation c has run: browser and
\* bonjourInstance are the locals of that invocation
AfterTimeout(ds, c) == [ds EXCEPT ![c] = Expired(ds[c])]

DiscoverBy ==
    \E c \in Callers :
        /\ discoveries[c].dpc = "none"
        /\ \E t \in 1 .. MaxTimeout :
            /\ discoveries' = [discoveries EXCEPT ![c] = Started(t, clock)]
            /\ UNCHANGED <<clock, dpc, timeout, elapsed, timerArmed, discoveredIPs,
                           browserStopped, destroyed, effects, resolveCount,
                           resolvedIPs, delivered, live, late, clientVars, tempVars>>

\* the browser of one invocation emits 'up'; a stopped browser emits nothing
UpFor ==
    \E c \in Callers :
        /\ discoveries[c].dpc = "browsing"
        /\ ~discoveries[c].browserStopped
        /\ \E service \in PairServices :
            /\ discoveries' = [discoveries EXCEPT ![c] = Handled(discoveries[c], service)]
            /\ UNCHANGED <<clock, dpc, timeout, elapsed, timerArmed, discoveredIPs,
                           browserStopped, destroyed, effects, resolveCount,
                           resolvedIPs, delivered, live, late, clientVars, tempVars>>

\* time passes while a timer is pending and not yet due
ClockTicks ==
    /\ \E c \in Callers : discoveries[c].timerArmed /\ clock < discoveries[c].due
    /\ clock' = clock + 1
    /\ UNCHANGED <<discoveries, dpc, timeout, elapsed, timerArmed, discoveredIPs,
                   browserStopped, destroyed, effects, resolveCount, resolvedIPs,
                   delivered, live, late, clientVars, tempVars>>

\* the timer of one invocation runs, once it is due
TimeoutOf ==
    \E c \in Callers :
        /\ discoveries[c].timerArmed
        /\ clock >= discoveries[c].due
        /\ discoveries' = AfterTimeout(discoveries, c)
        /\ UNCHANGED <<clock, dpc, timeout, elapsed, timerArmed, discoveredIPs,
                       browserStopped, destroyed, effects, resolveCount, resolvedIPs,
                       delivered, live, late, clientVars, tempVars>>

NextMdnsPair == DiscoverBy \/ UpFor \/ ClockTicks \/ TimeoutOf

SpecMdnsPair == Init /\ [][NextMdnsPair]_vars

-----------------------------------------------------------------------------
(* Properties *)

settled == pc \in {"resolved", "rejected"}
answered == settled /\ answer # None

BrightnessOutOfRange(light) ==
    "brightness" \in DOMAIN light /\ light.brightness \notin 0 .. 100
TemperatureOutOfRange(light) ==
    "temperature" \in DOMAIN light /\ light.temperature \notin 143 .. 344
Offending(light) == BrightnessOutOfRange(light) \/ TemperatureOutOfRange(light)

\* the lights array an updateLights or setLight invocation is about
LightsOfCall == IF op = "setLight" THEN <<arg>> ELSE arg.lights

LightsUrl == "http://" \o ip \o ":9123/elgato/lights"

\* C1: an updateLights or setLight call whose lights array has an entry with
\* brightness outside [0,100] or temperature outside [143,344], at any
\* position, rejects with RangeValidation and the transport has recorded no
\* invocation; the call never waits for the transport, so no answer matters.
C1_InvalidLightsRejectedBeforeTransport ==
    (/\ op \in {"updateLights", "setLight"}
     /\ \E i \in DOMAIN LightsOfCall : Offending(LightsOfCall[i]))
    => /\ pc = "rejected"
       /\ outcome.name = "KeylightValidationError"
       /\ calls = <<>>
       /\ answer = None

C1_Witness ==
    /\ op = "updateLights"
    /\ Len(arg.lights) = 2
    /\ ~Offending(arg.lights[1])
    /\ Offending(arg.lights[2])
    /\ pc = "rejected"

\* the path each core operation names
EndpointOf(o) ==
    CASE o \in {"identify"} -> "/identify"
      [] o \in {"getAccessoryInfo", "updateAccessoryInfo"} -> "/accessory-info"
      [] o \in {"getLights", "updateLights"} -> "/lights"
      [] o \in {"getSettings", "updateSettings"} -> "/lights/settings"

CoreOperations ==
    {"identify", "getAccessoryInfo", "updateAccessoryInfo", "getLights",
     "updateLights", "getSettings", "updateSettings"}

\* C2: for each of the seven core operations, when the transport resolves
\* with ok = false (any status), the operation rejects with RejectedRequest
\* whose endpoint is the path of that operation.
C2_NotOkRejectsWithEndpoint ==
    (/\ op \in CoreOperations
     /\ answered
     /\ answer.kind = "response"
     /\ ~answer.ok)
    => /\ pc = "rejected"
       /\ outcome = [name |-> "KeylightBadRequestError", endpoint |-> EndpointOf(op)]

C2_Witness ==
    /\ op = "getSettings"
    /\ answered
    /\ answer.kind = "response"
    /\ answer.status = 500
    /\ pc = "rejected"
    /\ outcome.name = "KeylightBadRequestError"

Taxonomy ==
    {"KeylightConnectionError", "KeylightBadRequestError", "KeylightValidationError"}

\* C3: for every operation whose input passed validation, when the transport
\* call throws a fault that is not a taxonomy error, the operation rejects
\* with ConnectionFailure whose cause is exactly that fault.
C3_FaultWrappedAsConnectionFailure ==
    (/\ answered
     /\ answer.kind = "throw"
     /\ answer.error.name \notin Taxonomy)
    => /\ pc = "rejected"
       /\ outcome.name = "KeylightConnectionError"
       /\ outcome.cause = answer.error

C3_Witness ==
    /\ op = "updateLights"
    /\ answered
    /\ answer = [kind |-> "throw", error |-> [name |-> "Error", message |-> "timeout"]]
    /\ pc = "rejected"
    /\ outcome.name = "KeylightConnectionError"

\* C4: if the transport call fails with an error that is already of a
\* taxonomy kind, the operation rejects with that same error unchanged.
C4_TaxonomyErrorsPassUnchanged ==
    (/\ answered
     /\ answer.kind = "throw"
     /\ answer.error.name \in Taxonomy)
    => /\ pc = "rejected"
       /\ outcome = answer.error

\* the single-light update a convenience operation is to send
ConvenienceLight ==
    CASE op = "turnOn" -> [on |-> 1]
      [] op = "turnOff" -> [on |-> 0]
      [] op = "setBrightness" -> [brightness |-> arg]
      [] op = "setTemperature" -> [temperature |-> arg]
      [] op = "setLight" -> arg

ConvenienceInputValid ==
    CASE op \in {"turnOn", "turnOff"} -> TRUE
      [] op = "setBrightness" -> arg \in 0 .. 100
      [] op = "setTemperature" -> arg \in 143 .. 344
      [] op = "setLight" -> ~Offending(arg)

\* C5: a convenience operation called with valid input issues exactly one
\* transport call, a PUT to the lights endpoint, whose body has
\* numberOfLights = 1 and the one-element lights array of the operation, with
\* no other field.
C5_ConvenienceSendsSingleLight ==
    (/\ op \in {"turnOn", "turnOff", "setBrightness", "setTemperature", "setLight"}
     /\ ConvenienceInputValid)
    => calls = <<[verb |-> "PUT", url |-> LightsUrl,
                  body |-> [numberOfLights |-> 1, lights |-> <<ConvenienceLight>>]]>>

C5_Witness ==
    /\ op = "turnOff"
    /\ pc = "resolved"
    /\ Len(calls) = 1
    /\ calls[1].body.lights = <<[on |-> 0]>>

\* C6: for every integer kelvin in [2900,7000] and a transport that answers
\* ok, setTemperatureKelvin(kelvin) resolves after exactly one PUT to the
\* lights endpoint with body {numberOfLights:1, lights:[{temperature:
\* kelvinToApi(kelvin)}]}.
C6_KelvinRangeAccepted ==
    (/\ op = "setTemperatureKelvin"
     /\ arg \in 2900 .. 7000)
    => /\ calls = <<[verb |-> "PUT", url |-> LightsUrl,
                     body |-> [numberOfLights |-> 1,
                               lights |-> <<[temperature |-> kelvinToApi(arg).value]>>]]>>
       /\ (answered /\ answer.kind = "response" /\ answer.ok) => pc = "resolved"

\* C7: for every integer kelvin in [2900,7000], kelvinToApi(kelvin) lies in
\* [143,344], and for every integer t in [143,344], apiToKelvin(t) lies in
\* [2900,7000].
C7_RangesCorrespond ==
    /\ (tfn = "kelvinToApi" /\ tin \in 2900 .. 7000)
       => (tout.kind = "return" /\ tout.value \in 143 .. 344)
    /\ (tfn = "apiToKelvin" /\ tin \in 143 .. 344)
       => (tout.kind = "return" /\ tout.value \in 2900 .. 7000)

\* r is num / den rounded to the nearest integer, a tie rounded up:
\* r - 1/2 <= num / den < r + 1/2
IsRounded(r, num, den) ==
    /\ (2 * r - 1) * den <= 2 * num
    /\ 2 * num < (2 * r + 1) * den

C10_SettersValidateBeforeTransport ==
    /\ (op = "setBrightness" /\ arg \notin 0 .. 100)
       => /\ pc = "rejected"
          /\ outcome.name = "KeylightValidationError"
          /\ outcome.field = "brightness"
          /\ calls = <<>>
    /\ (op = "setTemperature" /\ arg \notin 143 .. 344)
       => /\ pc = "rejected"
          /\ outcome.name = "KeylightValidationError"
          /\ outcome.field = "temperature"
          /\ calls = <<>>

C10_Witness ==
    /\ op = "setTemperature"
    /\ arg = 345
    /\ pc = "rejected"
    /\ outcome.field = "temperature"

\* C11: setTemperatureKelvin(kelvin) with kelvin outside [2900,7000] rejects
\* with RangeValidation naming field 'kelvin' with bounds 2900 and 7000, and
\* the transport has recorded no invocation.
C11_KelvinValidatedBeforeTransport ==
    (op = "setTemperatureKelvin" /\ arg \notin 2900 .. 7000)
    => /\ pc = "rejected"
       /\ outcome = [name |-> "KeylightValidationError", field |-> "kelvin",
                     value |-> arg, min |-> 2900, max |-> 7000]
       /\ calls = <<>>

C11_Witness ==
    /\ op = "setTemperatureKelvin"
    /\ arg = 7001
    /\ pc = "rejected"
    /\ outcome.field = "kelvin"

PowerOnBrightnessBad ==
    "powerOnBrightness" \in DOMAIN arg /\ arg.powerOnBrightness \notin 0 .. 100
PowerOnTemperatureBad ==
    "powerOnTemperature" \in DOMAIN arg /\ arg.powerOnTemperature \notin 143 .. 344

SettingsUrl == "http://" \o ip \o ":9123/elgato/lights/settings"

\* C12: updateSettings validates powerOnBrightness against [0,100] and
\* powerOnTemperature against [143,344] only when the field is present: a
\* present field out of range rejects with RangeValidation naming that field
\* (powerOnBrightness checked first) and the transport records nothing; if
\* both are absent or in range, exactly one PUT to the settings endpoint is
\* issued.
C12_SettingsValidatedWhenPresent ==
    op = "updateSettings" =>
        IF PowerOnBrightnessBad
        THEN /\ pc = "rejected"
             /\ outcome = [name |-> "KeylightValidationError",
                           field |-> "powerOnBrightness",
                           value |-> arg.powerOnBrightness, min |-> 0, max |-> 100]
             /\ calls = <<>>
        ELSE IF PowerOnTemperatureBad
        THEN /\ pc = "rejected"
             /\ outcome = [name |-> "KeylightValidationError",
                           field |-> "powerOnTemperature",
                           value |-> arg.powerOnTemperature, min |-> 143, max |-> 344]
             /\ calls = <<>>
        ELSE /\ Len(calls) = 1
             /\ calls[1].verb = "PUT"
             /\ calls[1].url = SettingsUrl

\* both fields present and out of range: powerOnBrightness is the one named
C12_Witness ==
    /\ op = "updateSettings"
    /\ PowerOnBrightnessBad
    /\ PowerOnTemperatureBad
    /\ pc = "rejected"
    /\ outcome.field = "powerOnBrightness"

VerbOf(o) ==
    CASE o = "identify" -> "POST"
      [] o \in {"getAccessoryInfo", "getLights", "getSettings"} -> "GET"
      [] o \in {"updateAccessoryInfo", "updateLights", "updateSettings"} -> "PUT"

\* the call a core operation is to make on a client constructed with ip
ExpectedCall ==
    [verb |-> VerbOf(op),
     url |-> "http://" \o ip \o ":9123/elgato" \o EndpointOf(op),
     body |-> IF VerbOf(op) = "PUT" THEN arg ELSE Undefined]

okAnswered == answered /\ answer.kind = "response" /\ answer.ok

\* C13 as stated: every transport call of a core operation uses the verb and
\* URL of its operation under http://A:9123/elgato, a PUT carries the
\* caller's update unmodified as its body, and when the transport answers
\* ok = true the operation resolves with exactly the transport's data.
C13_ResolvesWithTransportData ==
    (op \in CoreOperations /\ calls # <<>>)
    => /\ calls = <<ExpectedCall>>
       /\ okAnswered => (pc = "resolved" /\ outcome = answer.data)

\* C13 as amended: the same, except that identify resolves with no value,
\* whatever data the transport answered with.
C13_VerbUrlBodyAndResult ==
    (op \in CoreOperations /\ calls # <<>>)
    => /\ calls = <<ExpectedCall>>
       /\ okAnswered =>
            /\ pc = "resolved"
            /\ outcome = IF op = "identify" THEN Undefined ELSE answer.data

C13_Witness ==
    /\ op = "updateAccessoryInfo"
    /\ ip = "10.0.0.5"
    /\ okAnswered
    /\ pc = "resolved"
    /\ calls[1].url = "http://10.0.0.5:9123/elgato/accessory-info"
    /\ calls[1].body = arg
    /\ outcome = [payload |-> "b"]

\* C14: one invocation of an operation causes at most one transport call,
\* exactly one when its input passes validation (no call is made only when
\* the operation rejected with RangeValidation), and the first failure of
\* the transport is the outcome of the operation: it is rejected at once,
\* with an error made from that failure, after that single call.
C14_NoRetry ==
    /\ Len(calls) <= 1
    /\ (op # "none" /\ calls = <<>>)
       => (pc = "rejected" /\ outcome.name = "KeylightValidationError")
    /\ (answered /\ ~(answer.kind = "response" /\ answer.ok))
       => /\ pc = "rejected"
          /\ Len(calls) = 1
          /\ IF answer.kind = "response"
             THEN outcome.name = "KeylightBadRequestError"
             ELSE \/ outcome = answer.error
                  \/ (outcome.name = "KeylightConnectionError"
                        /\ outcome.cause = answer.error)

C14_Witness ==
    /\ op = "getLights"
    /\ answered
    /\ answer.kind = "response"
    /\ answer.status = 500
    /\ pc = "rejected"
    /\ Len(calls) = 1

\* C15: in every PUT the client sends to the lights endpoint, numberOfLights
\* equals the length of the lights array, for every way of reaching that PUT.
C15_NumberOfLightsMatches ==
    \A i \in DOMAIN calls :
        (calls[i].verb = "PUT" /\ calls[i].url = LightsUrl)
        => calls[i].body.numberOfLights = Len(calls[i].body.lights)

\* C16: every ConnectionFailure raised by a client operation carries as its
\* target address (field ip) the device address the client was constructed
\* with.
C16_ConnectionFailureCarriesAddress ==
    (pc = "rejected" /\ outcome.name = "KeylightConnectionError")
    => outcome.ip = ip

HasColon(address) == \E i \in 1 .. Len(address) : address[i] = ":"

\* an address the filtering policy rejects
Rejected(address) ==
    \/ HasColon(address)
    \/ address = <<"1", "2", "7", ".", "0", ".", "0", ".", "1">>
    \/ address = <<"0", ".", "0", ".", "0", ".", "0">>

Elements(seq) == {seq[i] : i \in DOMAIN seq}

\* the candidate addresses of an advertised service: its address list when
\* that list is non-empty, otherwise its referrer's address
Candidates(service) ==
    IF "addresses" \in DOMAIN service /\ service.addresses # <<>>
    THEN Elements(service.addresses)
    ELSE IF "referer" \in DOMAIN service THEN {service.referer.address}
    ELSE {}

Accepted(services) ==
    {a \in UNION {Candidates(service) : service \in services} : ~Rejected(a)}

\* C17: no element of the sequence discover resolves with contains ':', and
\* none equals '127.0.0.1' or '0.0.0.0'; every other candidate address of a
\* delivered advertisement passes the filter and is in the result.
C17_ResultHoldsNoRejectedAddress ==
    /\ \A a \in Elements(discoveredIPs) \cup Elements(resolvedIPs) : ~Rejected(a)
    /\ dpc = "resolved" =>
        \A service \in delivered : \A a \in Candidates(service) :
            ~Rejected(a) => a \in Elements(resolvedIPs)

C17_Witness ==
    /\ dpc = "resolved"
    /\ \E service \in delivered :
        /\ service.name = "c"
        /\ \E a \in Candidates(service) : a = <<"0", ".", "0", ".", "0", ".", "0">>
    /\ \E service \in delivered :
        /\ service.name = "b"
        /\ \E a \in Candidates(service) : HasColon(a)
    /\ Len(resolvedIPs) = 2

NoDuplicates(seq) == \A i, j \in DOMAIN seq : seq[i] = seq[j] => i = j

\* C18: the sequence discover resolves with is a duplicate-free enumeration
\* of exactly the accepted addresses extracted from the advertisements
\* delivered before the timeout fired: an address advertised several times
\* appears once, an address whose service disappeared is still present,
\* nothing advertised after the timeout is present, and the sequence is
\* empty when no advertisement was received.
C18_ResultIsTheAcceptedSet ==
    dpc = "resolved" =>
        /\ NoDuplicates(resolvedIPs)
        /\ Elements(resolvedIPs) = Accepted(delivered)
        /\ delivered = {} => resolvedIPs = <<>>

\* services a and b both advertised 10.0.0.5, a has disappeared, and d was
\* advertised only after the timeout
C18_Witness ==
    /\ dpc = "resolved"
    /\ \E sa, sb \in delivered :
        /\ sa.name = "a"
        /\ sb.name = "b"
        /\ sa \notin live
    /\ \E sd \in late : sd.name = "d" /\ sd \notin delivered
    /\ Len(resolvedIPs) = 2

\* C19: discover never resolves before its timeout has elapsed, however many
\* advertisements arrive earlier; when the timer is run it resolves, exactly
\* once, stays resolved with the same sequence, and never rejects.
C19_ResolvesOnceAfterTimeout ==
    /\ [](dpc = "resolved" => elapsed >= timeout)
    /\ [](resolveCount <= 1)
    /\ [](dpc \in {"none", "browsing", "resolved"})
    /\ [][dpc = "resolved" => (dpc' = "resolved" /\ resolvedIPs' = resolvedIPs)]_vars
    /\ (dpc = "browsing" ~> (dpc = "resolved" /\ resolveCount = 1))

C19_Witness ==
    /\ dpc = "resolved"
    /\ resolveCount = 1
    /\ elapsed = 2
    /\ Cardinality(delivered) >= 3

Before(seq, x, y) ==
    \E i, j \in DOMAIN seq : i < j /\ seq[i] = x /\ seq[j] = y

\* C20: whenever discover has resolved, its browser has been stopped and its
\* bonjour instance destroyed, for any number of results including zero; the
\* stop and the destroy happen before the promise resolves, and no
\* advertisement is processed after the stop.
C20_ReleasedBeforeResolving ==
    /\ [](dpc = "resolved" =>
            /\ browserStopped
            /\ destroyed
            /\ Before(effects, "browser.stop", "resolve")
            /\ Before(effects, "bonjourInstance.destroy", "resolve"))
    /\ [][browserStopped =>
            (discoveredIPs' = discoveredIPs /\ delivered' = delivered)]_vars

C20_Witness ==
    /\ dpc = "resolved"
    /\ resolvedIPs = <<>>
    /\ browserStopped
    /\ destroyed
    /\ late # {}

\* the addresses a service is to contribute: the accepted ones of its address
\* list when it has a non-empty one, and only otherwise its referrer's
Contribution(service) ==
    IF "addresses" \in DOMAIN service /\ Len(service.addresses) >= 1
    THEN {service.addresses[i] : i \in {j \in DOMAIN service.addresses :
                                            ~Rejected(service.addresses[j])}}
    ELSE IF "referer" \in DOMAIN service /\ ~Rejected(service.referer.address)
    THEN {service.referer.address}
    ELSE {}

\* C21: the addresses held are exactly those contributed by the delivered
\* services, a service contributing from its address list when that list is
\* non-empty and from its referrer only when the list is absent or empty;
\* the delivery of a service with a non-empty list adds nothing but listed
\* addresses, even when every listed address is filtered out.
C21_ListBeforeReferer ==
    /\ [](Elements(discoveredIPs) = UNION {Contribution(service) : service \in delivered})
    /\ [][\A service \in Services :
            (service \notin delivered /\ delivered' = delivered \cup {service})
            => Elements(discoveredIPs') =
                    Elements(discoveredIPs) \cup Contribution(service)]_vars

\* service c (every listed address filtered out, referrer 10.0.0.7) was
\* delivered, and the referrer's address is not in the result
C21_Witness ==
    /\ dpc = "resolved"
    /\ \E service \in delivered :
        /\ "addresses" \in DOMAIN service
        /\ service.addresses # <<>>
        /\ \A i \in DOMAIN service.addresses : Rejected(service.addresses[i])
        /\ "referer" \in DOMAIN service
        /\ ~Rejected(service.referer.address)
        /\ service.referer.address \notin Elements(resolvedIPs)
    /\ resolvedIPs # <<>>

\* the server answered without a body, with status 200 or 204
AnsweredWithoutBody ==
    /\ settled
    /\ response \in ServerResponses
    /\ response.status \in {200, 204}
    /\ response.body = [kind |-> "empty"]

\* C22: with the default fetch transport, a POST the server answers with
\* status 200 and no body, or with status 204, yields the response ok = true
\* with data null, and identify() resolves.
C22_PostWithoutBodySucceeds ==
    /\ (op \in {"identify", "FetchHttpClient.post"} /\ AnsweredWithoutBody)
       => answer = [kind |-> "response", ok |-> TRUE, status |-> response.status,
                    data |-> Null]
    /\ (op = "identify" /\ AnsweredWithoutBody) => pc = "resolved"

\* the part of C22 about status 204 alone
C22_Status204Succeeds ==
    (op \in {"identify", "FetchHttpClient.post"} /\ AnsweredWithoutBody
        /\ response.status = 204)
    => /\ answer = [kind |-> "response", ok |-> TRUE, status |-> 204, data |-> Null]
       /\ op = "identify" => pc = "resolved"

\* what an invocation is to send, from its own operation and argument alone
PathOfCall(o) == IF o \in CoreOperations THEN EndpointOf(o) ELSE "/lights"
VerbOfCall(o) == IF o \in CoreOperations THEN VerbOf(o) ELSE "PUT"
BodyOfCall(o, a) ==
    IF VerbOfCall(o) # "PUT" THEN [undefined |-> TRUE]
    ELSE IF o = "setBrightness" THEN [numberOfLights |-> 1, lights |-> <<[brightness |-> a]>>]
    ELSE a

\* the operations whose catch clause passes a RangeValidation on
ValidatingOperations == {"updateLights", "updateSettings", "setBrightness"}

\* how an invocation is to settle, from its own operation and the answer to
\* its own request alone
SettlesAs(o, a) ==
    IF a.kind = "response"
    THEN IF a.ok
         THEN [pc |-> "resolved",
               outcome |-> IF o = "identify" THEN [undefined |-> TRUE] ELSE a.data]
         ELSE [pc |-> "rejected",
               outcome |-> [name |-> "KeylightBadRequestError",
                            endpoint |-> PathOfCall(o)]]
    ELSE [pc |-> "rejected",
          outcome |-> IF \/ a.error.name = "KeylightBadRequestError"
                         \/ (a.error.name = "KeylightValidationError"
                                /\ o \in ValidatingOperations)
                      THEN a.error
                      ELSE [name |-> "KeylightConnectionError",
                            ip |-> "http://192.168.1.61:9123/elgato",
                            cause |-> a.error]]

\* C23: on a client shared by several call sites, every invocation sent the
\* request of its own operation and argument, and settled as its own
\* operation and the answer to its own request determine, whatever
\* invocations preceded it or are in flight with it; two invocations with the
\* same operation, argument and answer have the same outcome; and no step
\* changes the client's base address or transport.
C23_CallsAreIndependent ==
    /\ [](\A k \in DOMAIN inflight :
            LET c == inflight[k] IN
            /\ c.request # 0 =>
                    calls[c.request] = [verb |-> VerbOfCall(c.op),
                                        url |-> "http://192.168.1.61:9123/elgato"
                                                    \o PathOfCall(c.op),
                                        body |-> BodyOfCall(c.op, c.arg)]
            /\ c.answer # None =>
                    (c.pc = SettlesAs(c.op, c.answer).pc
                        /\ c.outcome = SettlesAs(c.op, c.answer).outcome)
            /\ \A j \in DOMAIN inflight :
                    (inflight[j].op = c.op /\ inflight[j].arg = c.arg
                        /\ inflight[j].answer = c.answer)
                    => (inflight[j].pc = c.pc /\ inflight[j].outcome = c.outcome))
    /\ [][ip' = ip /\ baseUrl' = baseUrl /\ transport' = transport]_vars
    /\ [][\A k \in DOMAIN inflight :
            inflight[k].pc # "awaiting" => inflight'[k] = inflight[k]]_vars

\* getLights was answered not ok while an identify made after it was still
\* in flight, and the identify was then answered ok
C23_Witness ==
    /\ Len(inflight) = 2
    /\ inflight[1].op = "getLights"
    /\ inflight[1].pc = "rejected"
    /\ inflight[1].outcome = [name |-> "KeylightBadRequestError", endpoint |-> "/lights"]
    /\ inflight[2].op = "identify"
    /\ inflight[2].pc = "resolved"
    /\ inflight[2].answer.data = [payload |-> "a"]

\* C24: the Kelvin round trip at the representative value: kelvinToApi(4000)
\* is 240 and apiToKelvin of that is 4000 again.
C24_RoundTripAt4000 ==
    (tfn = "kelvinToApi,apiToKelvin" /\ tin = 4000)
    => /\ tmid = [kind |-> "return", value |-> 240]
       /\ tout = [kind |-> "return", value |-> 4000]

C24_Witness ==
    /\ tfn = "kelvinToApi,apiToKelvin"
    /\ tin = 4000
    /\ tmid.value = 240
    /\ tout.value = 4000

\* C28: for every integer t in [143,334], apiToKelvin(t) lies in [2900,7000]
\* and kelvinToApi of it is t again.
C28_UnitRoundTripExact ==
    (tfn = "apiToKelvin,kelvinToApi" /\ tin \in 143 .. 334)
    => /\ tmid.kind = "return"
       /\ tmid.value \in 2900 .. 7000
       /\ tout = [kind |-> "return", value |-> tin]

\* from 335 on apiToKelvin falls below 2900 and kelvinToApi refuses it
C28_Witness ==
    /\ tfn = "apiToKelvin,kelvinToApi"
    /\ tin = 334
    /\ tmid = [kind |-> "return", value |-> 2907]
    /\ tout = [kind |-> "return", value |-> 334]

\* the index of the first entry of the array with an offending field
FirstOffending(lights) ==
    CHOOSE i \in DOMAIN lights :
        /\ Offending(lights[i])
        /\ \A j \in 1 .. (i - 1) : ~Offending(lights[j])

\* C25: when the lights array of an updateLights call has offending fields,
\* the RangeValidation raised is the one of the first offending entry in
\* array order, of its brightness when that is out of range and of its
\* temperature otherwise, with the field's name, the offending value and the
\* field's bounds (0 and 100 for brightness, 143 and 344 for temperature).
C25_FirstOffendingFieldReported ==
    (op = "updateLights" /\ \E i \in DOMAIN arg.lights : Offending(arg.lights[i]))
    => LET light == arg.lights[FirstOffending(arg.lights)] IN
       /\ pc = "rejected"
       /\ outcome =
            IF BrightnessOutOfRange(light)
            THEN [name |-> "KeylightValidationError", field |-> "brightness",
                  value |-> light.brightness, min |-> 0, max |-> 100]
            ELSE [name |-> "KeylightValidationError", field |-> "temperature",
                  value |-> light.temperature, min |-> 143, max |-> 344]

\* the first entry has only its temperature out of range, the second has
\* both fields out of range: the temperature of the first is reported
C25_Witness ==
    /\ op = "updateLights"
    /\ Len(arg.lights) = 2
    /\ TemperatureOutOfRange(arg.lights[1])
    /\ ~BrightnessOutOfRange(arg.lights[1])
    /\ BrightnessOutOfRange(arg.lights[2])
    /\ TemperatureOutOfRange(arg.lights[2])
    /\ pc = "rejected"
    /\ outcome.field = "temperature"
    /\ outcome.value = arg.lights[1].temperature

\* the request handed to fetch carries a body
HasBody(q) == "body" \in DOMAIN q /\ q.body # [undefined |-> TRUE]

HasHeader(q, header) ==
    header \in DOMAIN q.headers /\ q.headers[header] = "application/json"

\* C26: every request made by the default fetch transport carries Accept:
\* application/json, and carries Content-Type: application/json exactly when
\* the request has a body (always for PUT; for POST if and only if a body is
\* sent).
C26_HeadersMatchBody ==
    \A i \in DOMAIN fetched :
        LET q == fetched[i] IN
        /\ HasHeader(q, "Accept")
        /\ HasHeader(q, "Content-Type") <=> HasBody(q)
        /\ "Content-Type" \in DOMAIN q.headers <=> HasBody(q)
        /\ q.method = "PUT" => HasBody(q)
        /\ q.method = "GET" => ~HasBody(q)

\* what holds of the headers: Accept on every request, Content-Type on every
\* PUT and on no GET, and on a POST exactly when it has a body; a PUT has a
\* body unless the caller's body is undefined
C26_HeadersOfEachMethod ==
    \A i \in DOMAIN fetched :
        LET q == fetched[i] IN
        /\ HasHeader(q, "Accept")
        /\ q.method = "PUT" =>
                /\ HasHeader(q, "Content-Type")
                /\ ~HasBody(q) <=>
                        (op = "FetchHttpClient.put" /\ arg = [undefined |-> TRUE])
        /\ q.method = "POST" => (HasHeader(q, "Content-Type") <=> HasBody(q))
        /\ q.method = "POST" => ("Content-Type" \in DOMAIN q.headers <=> HasBody(q))
        /\ q.method = "GET" => (~HasBody(q) /\ "Content-Type" \notin DOMAIN q.headers)

\* C27: of two concurrent discover invocations, a browser is stopped and an
\* instance destroyed only by the timeout of its own invocation, when its own
\* window has passed; a step of one invocation (its timeout included) leaves
\* the other as it was; and the addresses of an invocation are exactly the
\* accepted ones of the advertisements delivered to its own browser.
C27_InvocationsIsolated ==
    /\ [](\A c \in DOMAIN discoveries :
            LET d == discoveries[c] IN
            /\ (d.browserStopped \/ d.destroyed) => (d.dpc = "resolved" /\ clock >= d.due)
            /\ Elements(d.discoveredIPs) = Accepted(d.delivered)
            /\ d.dpc = "resolved" => d.resolvedIPs = d.discoveredIPs)
    /\ [][\A c, k \in DOMAIN discoveries :
            (c # k /\ discoveries'[c] # discoveries[c])
            => discoveries'[k] = discoveries[k]]_vars

\* x has resolved with the address of service a while y, which was delivered
\* service d only, is still browsing before its own timeout
C27_Witness ==
    /\ discoveries["x"].dpc = "resolved"
    /\ discoveries["x"].browserStopped
    /\ Len(discoveries["x"].resolvedIPs) = 1
    /\ discoveries["y"].dpc = "browsing"
    /\ ~discoveries["y"].browserStopped
    /\ ~discoveries["y"].destroyed
    /\ clock < discoveries["y"].due
    /\ Len(discoveries["y"].discoveredIPs) = 1
    /\ discoveries["y"].discoveredIPs # discoveries["x"].resolvedIPs

TransportMethods == {"FetchHttpClient.get", "FetchHttpClient.put", "FetchHttpClient.post"}

\* the server answered with a status outside 200..299
AnsweredNotOk ==
    /\ settled
    /\ response \in ServerResponses
    /\ response.status \notin 200 .. 299

\* C29: with the default fetch transport, when the server answers with a
\* non-success status the transport resolves with ok = false, that status and
\* null data, whatever the body (empty, not JSON, or JSON), and a client
\* operation rejects with RejectedRequest naming its endpoint, not with
\* ConnectionFailure.
C29_NotOkBodyNeverParsed ==
    AnsweredNotOk =>
        /\ answer = [kind |-> "response", ok |-> FALSE, status |-> response.status,
                     data |-> Null]
        /\ IF op \in TransportMethods
           THEN pc = "resolved" /\ outcome = answer
           ELSE /\ pc = "rejected"
                /\ outcome = [name |-> "KeylightBadRequestError",
                              endpoint |-> PathOfCall(op)]

\* getLights answered 400 with a body that is not JSON
C29_Witness ==
    /\ op = "getLights"
    /\ AnsweredNotOk
    /\ response.status = 400
    /\ response.body = [kind |-> "text"]
    /\ pc = "rejected"
    /\ outcome.name = "KeylightBadRequestError"

\* C30: updateSettings checks no field but powerOnBrightness and
\* powerOnTemperature: whatever powerOnBehavior and the three durations are
\* (negative durations included), a call whose powerOnBrightness and
\* powerOnTemperature are absent or in range issues its single PUT to the
\* settings endpoint with the caller's update unmodified, and a
\* RangeValidation raised before the transport is called names one of those
\* two fields only.
C30_OtherSettingsUnchecked ==
    op = "updateSettings" =>
        /\ (~PowerOnBrightnessBad /\ ~PowerOnTemperatureBad)
           => calls = <<[verb |-> "PUT", url |-> SettingsUrl, body |-> arg]>>
        /\ (pc = "rejected" /\ calls = <<>>)
           => /\ outcome.name = "KeylightValidationError"
              /\ outcome.field \in {"powerOnBrightness", "powerOnTemperature"}
              /\ PowerOnBrightnessBad \/ PowerOnTemperatureBad

\* an update with a power-on behaviour outside {0, 1} and negative durations
\* was sent as it is and the call resolved
C30_Witness ==
    /\ op = "updateSettings"
    /\ "powerOnBehavior" \in DOMAIN arg
    /\ arg.powerOnBehavior = 2
    /\ arg.switchOnDurationMs < 0
    /\ arg.switchOffDurationMs < 0
    /\ arg.colorChangeDurationMs < 0
    /\ pc = "resolved"
    /\ Len(calls) = 1
    /\ calls[1].body = arg

=============================================================================
